---- MODULE Spec2Model ----
(***************************************************************************)
(* Remote resource completion cache of googlecloudsdk/core/                *)
(* remote_completion.py: the file-backed name cache (RemoteCompletion),    *)
(* the completer built by GetCompleterForResource (RemoteCompleter) and    *)
(* the progress tracker that guards the live list command                  *)
(* (CompletionProgressTracker).                                            *)
(*                                                                         *)
(* Strings the code cuts at '/' are sequences of segments, strings it      *)
(* concatenates are sequences of pieces, and a file's text is a sequence   *)
(* of tokens in which "\n" separates the names.  Times are whole seconds.  *)
(***************************************************************************)
EXTENDS Integers, Sequences, FiniteSets, TLC

\* ------------------------------------------------------------- bounds
\* Longest name list AddToCache may grow a record to.
MaxNames == 2
\* The clock stops advancing here.
MaxNow == 300
\* GetFromCache is not called once CACHE_TRIES has reached this.
MaxTries == 2

\* ------------------------------------------------- the modelled universe
\* cache_dir (config.Paths().completion_cache_dir) and the head every
\* self link of the project shares once 'https://' is stripped.
CacheDir == <<"completion_cache">>
Api == <<"www.googleapis.com", "compute", "v1", "projects", "p">>

\* The --region values a completion is asked with ("" when none is given).
Regions == {"r1"}

\* The self links of the addresses that exist: two in region r1 and a
\* global one.
SelfLinks ==
  { Api \o <<"regions", "r1", "addresses", "ab">>,
    Api \o <<"regions", "r1", "addresses", "b">>,
    Api \o <<"global", "addresses", "b">> }

\* One fixed enumeration of SelfLinks: the order in which a list command
\* reports the items it returns.
SelfLinkSeq ==
  << Api \o <<"regions", "r1", "addresses", "ab">>,
     Api \o <<"regions", "r1", "addresses", "b">>,
     Api \o <<"global", "addresses", "b">> >>

\* The completion word prefixes tried (COMP_LINE's last word).
Prefixes == {"", "a"}

\* The characters of the strings that are compared by prefix.
Chars(s) ==
  CASE s = "" -> <<>>
    [] s = "a" -> <<"a">>
    [] s = "b" -> <<"b">>
    [] s = "ab" -> <<"a", "b">>
    [] OTHER -> <<s>>

\* ------------------------------------------------------------ helpers
Last(s) == s[Len(s)]
Front(s) == SubSeq(s, 1, Len(s) - 1)

\* All orders in which the elements of a finite set can be enumerated
\* (listdir and dict iteration promise no order).
Orders(S) ==
  { o \in [1..Cardinality(S) -> S] : \A i, j \in DOMAIN o : i # j => o[i] # o[j] }

\* str.split(sep) on a sequence of tokens: the runs between separators.
RECURSIVE Split(_, _)
Split(s, sep) ==
  IF \A i \in DOMAIN s : s[i] # sep
    THEN <<s>>
    ELSE LET k == CHOOSE i \in DOMAIN s :
                    s[i] = sep /\ \A j \in 1..(i - 1) : s[j] # sep
         IN  <<SubSeq(s, 1, k - 1)>> \o Split(SubSeq(s, k + 1, Len(s)), sep)

\* '\n'.join(names): the file text of a name list.
RECURSIVE Join(_)
Join(names) ==
  IF names = <<>> THEN <<>>
  ELSE IF Len(names) = 1 THEN <<names[1]>>
  ELSE <<names[1], "\n">> \o Join(Tail(names))

\* data.split('\n'): the names of a file text; an empty run is the name ''.
SplitLines(data) ==
  LET runs == Split(data, "\n")
  IN  [i \in DOMAIN runs |-> IF runs[i] = <<>> THEN "" ELSE runs[i][1]]

\* item.startswith(prefix)
StartsWith(item, prefix) ==
  /\ Len(Chars(prefix)) <= Len(Chars(item))
  /\ SubSeq(Chars(item), 1, Len(Chars(prefix))) = Chars(prefix)

\* Python's None and a list, as one shape; Raised stands for a call left
\* by an exception.
None == [absent |-> TRUE, val |-> <<>>]
List(v) == [absent |-> FALSE, val |-> v]
Raised == [absent |-> TRUE, val |-> <<"raised">>]

\* ------------------------------------------------------------- state
VARIABLES
  dirs,          \* the directories that exist under cache_dir
  files,         \* path -> [data, mtime] of the files that exist
  now,           \* time.time()
  flags,         \* self.flags of the long-lived RemoteCompletion object
  CACHE_TRIES,   \* RemoteCompletion.CACHE_TRIES
  CACHE_HITS,    \* RemoteCompletion.CACHE_HITS
  pc,            \* where RemoteCompleter is: "idle" outside it, "listing"
                 \* while the list command runs under the progress tracker,
                 \* "reread" before its second GetFromCache
  ccflags,       \* self.flags of RemoteCompleter's own ccache object
  op,            \* the last operation, its arguments, the items its list
                 \* command returned, whether it began on an empty cache
                 \* and the step of it that raised an exception, if any
  ret,           \* what it returned
  timeout,       \* CompletionProgressTracker.timeout, in tenths of a second
  ticks,         \* CompletionProgressTracker._ticks
  done,          \* CompletionProgressTracker._done
  lock,          \* the thread that holds CompletionProgressTracker._lock
  ofile,         \* what was written to CompletionProgressTracker.ofile,
                 \* in order, each piece without its '\b'
  mpc,           \* where the thread that runs the with statement is
  tpc            \* where the Ticker thread is

cvars == <<dirs, files, now, flags, CACHE_TRIES, CACHE_HITS, pc, ccflags, op, ret>>
wvars == <<timeout, ticks, done, lock, ofile, mpc, tpc>>
vars == <<cvars, wvars>>

\* ------------------------------------------------- file system queries
IsDir(fs, path) == path \in fs.dirs
IsFile(fs, path) == path \in DOMAIN fs.files
GetMTime(fs, path) == fs.files[path].mtime

\* A path and the directories above it (files.MakeDir makes them all).
Ancestors(path) == { SubSeq(path, 1, n) : n \in 1..Len(path) }

\* listdir(path): the names of the entries directly under path.
ListDir(fs, path) ==
  { p[Len(path) + 1] :
      p \in { q \in fs.dirs \cup DOMAIN fs.files :
                Len(q) > Len(path) /\ SubSeq(q, 1, Len(path)) = path } }

WriteFile(fs, path, data, t) ==
  [fs EXCEPT !.files =
     [p \in DOMAIN fs.files \cup {path} |->
        IF p = path THEN [data |-> data, mtime |-> t] ELSE fs.files[p]]]

SetMTime(fs, path, t) ==
  [fs EXCEPT !.files = [fs.files EXCEPT ![path].mtime = t]]

RemoveFile(fs, path) ==
  [fs EXCEPT !.files = [p \in DOMAIN fs.files \ {path} |-> fs.files[p]]]

\* ---------------------------------------------------------- CachePath
\* [path, name] of a self link: the last segment is the name and
\* '_names_' takes its place in the path.
CachePath(self_link) ==
  [path |-> Front(self_link) \o <<"_names_">>, name |-> Last(self_link)]

AbsPath(self_link) == CacheDir \o CachePath(self_link).path

\* ------------------------------------------------------------ read path
\* _RESOURCE_FLAGS, keyed by the two pieces the code joins with '.'.
\* A key that is not in the table raises KeyError.
ResourceFlags(key) ==
  CASE key = <<"compute", "projects">> -> " --project "
    [] key = <<"compute", "regions">> -> " --region "
    [] key = <<"compute", "zones">> -> " --zone "
    [] key = <<"sql", "projects">> -> " --project "
    [] OTHER -> "KeyError"

\* list.index(x): the first position of x, 0 when it is missing.
IndexOf(s, x) ==
  IF \E i \in DOMAIN s : s[i] = x
    THEN CHOOSE i \in DOMAIN s : s[i] = x /\ \A j \in 1..(i - 1) : s[j] # x
    ELSE 0

\* MatchesInFile with the freshness test off by one: a file whose mtime
\* is the present second still counts as fresh.
MatchesInFile_Late(prefix, fpath, options, fl, fs, t) ==
  IF fpath = <<>>
    THEN [options |-> None, flags |-> fl, hits |-> 0]
  ELSE IF ~IsFile(fs, fpath) \/ GetMTime(fs, fpath) < t
    THEN [options |-> None, flags |-> fl, hits |-> 0]
  ELSE LET base == IF options.absent \/ options.val = <<>>
                     THEN <<>> ELSE options.val
           items == SplitLines(fs.files[fpath].data)
           hit == SelectSeq(items, LAMBDA item : prefix = "" \/ StartsWith(item, prefix))
       IN  [options |-> List(base \o [i \in DOMAIN hit |-> <<hit[i]>> \o fl]),
            flags |-> <<>>,
            hits |-> 1]

\* MatchesInFile that does not count the file it has parsed.
MatchesInFile_NoHit(prefix, fpath, options, fl, fs, t) ==
  IF fpath = <<>>
    THEN [options |-> None, flags |-> fl, hits |-> 0]
  ELSE IF ~IsFile(fs, fpath) \/ GetMTime(fs, fpath) <= t
    THEN [options |-> None, flags |-> fl, hits |-> 0]
  ELSE LET base == IF options.absent \/ options.val = <<>>
                     THEN <<>> ELSE options.val
           items == SplitLines(fs.files[fpath].data)
           hit == SelectSeq(items, LAMBDA item : prefix = "" \/ StartsWith(item, prefix))
       IN  [options |-> List(base \o [i \in DOMAIN hit |-> <<hit[i]>> \o fl]),
            flags |-> <<>>,
            hits |-> 0]

\* The names of one file (the branch of GetAllMatchesFromCache taken when
\* fpath holds no '*'): None when the file is missing or not fresh, else
\* options grown by the names that start with prefix, each followed
\* by the flags; self.flags is reset and one hit is counted.
MatchesInFile(prefix, fpath, options, fl, fs, t) ==
  IF fpath = <<>>
    THEN [options |-> None, flags |-> fl, hits |-> 0]
  ELSE IF ~IsFile(fs, fpath) \/ GetMTime(fs, fpath) <= t
    THEN [options |-> None, flags |-> fl, hits |-> 0]
  ELSE LET base == IF options.absent \/ options.val = <<>>
                     THEN <<>> ELSE options.val
           items == SplitLines(fs.files[fpath].data)
           hit == SelectSeq(items, LAMBDA item : prefix = "" \/ StartsWith(item, prefix))
       IN  [options |-> List(base \o [i \in DOMAIN hit |-> <<hit[i]>> \o fl]),
            flags |-> <<>>,
            hits |-> 1]

\* The loop over listdir(lst[0]) left after its first entry.
Branches_First(prefix, lst, flagname, order, acc, fs, t) ==
  IF order = <<>> THEN acc
  ELSE LET name == Head(order)
           fl == <<flagname, name>>
           fpath == lst[1] \o <<name>> \o lst[2]
           r == MatchesInFile(prefix, fpath, acc.options, fl, fs, t)
       IN  IF IsFile(fs, fpath) /\ GetMTime(fs, fpath) > t
             THEN [options |-> r.options, flags |-> r.flags,
                   hits |-> acc.hits + r.hits]
             ELSE [acc EXCEPT !.flags = fl]

\* The loop over listdir(lst[0]), in the order the directory is listed.
RECURSIVE Branches(_, _, _, _, _, _, _)
Branches(prefix, lst, flagname, order, acc, fs, t) ==
  IF order = <<>> THEN acc
  ELSE LET name == Head(order)
           fl == <<flagname, name>>
           fpath == lst[1] \o <<name>> \o lst[2]
           r == MatchesInFile(prefix, fpath, acc.options, fl, fs, t)
           nxt == IF IsFile(fs, fpath) /\ GetMTime(fs, fpath) > t
                    THEN [options |-> r.options, flags |-> r.flags,
                          hits |-> acc.hits + r.hits]
                    ELSE [acc EXCEPT !.flags = fl]
       IN  Branches(prefix, lst, flagname, Tail(order), nxt, fs, t)

\* GetAllMatchesFromCache, with self.flags passed in and out.  The call
\* it makes on itself always gets a path without '*' (the path is put
\* together from lst[0], an entry name and lst[1]), so that call is
\* MatchesInFile.  raised is the KeyError of the flag lookup.
GetAllMatchesFromCache(prefix, fpath, options, fl, order, fs, t) ==
  LET lst == Split(fpath, "*")
      head == lst[1]
  IN  IF Len(lst) > 1
        THEN IF ~IsDir(fs, head)
               THEN [options |-> None, flags |-> fl, hits |-> 0, raised |-> FALSE]
             ELSE LET index == IndexOf(head, "completion_cache")
                      flagname == ResourceFlags(<<head[index + 2], Last(head)>>)
                      acc == Branches(prefix, lst, flagname, order,
                                      [options |-> options, flags |-> fl, hits |-> 0],
                                      fs, t)
                      gpath == Front(head) \o <<"global">> \o lst[2]
                      g == MatchesInFile(prefix, gpath, acc.options,
                                         <<" --global">>, fs, t)
                  IN  IF index = 0 \/ flagname = "KeyError"
                        THEN [options |-> None, flags |-> fl, hits |-> 0,
                              raised |-> TRUE]
                      ELSE IF /\ Last(head) = "regions"
                              /\ IsFile(fs, gpath)
                              /\ GetMTime(fs, gpath) > t
                        THEN [options |-> g.options, flags |-> g.flags,
                              hits |-> acc.hits + g.hits, raised |-> FALSE]
                      ELSE [options |-> acc.options, flags |-> acc.flags,
                            hits |-> acc.hits, raised |-> FALSE]
        ELSE LET r == MatchesInFile(prefix, fpath, options, fl, fs, t)
             IN  [options |-> r.options, flags |-> r.flags, hits |-> r.hits,
                  raised |-> FALSE]

\* The entries GetAllMatchesFromCache lists for fpath: those of lst[0]
\* when fpath holds a '*' and lst[0] is a directory.
Listed(fpath, fs) ==
  LET lst == Split(fpath, "*")
  IN  IF Len(lst) > 1 /\ IsDir(fs, lst[1]) THEN ListDir(fs, lst[1]) ELSE {}

\* GetFromCache apart from the CACHE_TRIES increment.
GetFromCache(self_link, prefix, fl, order, fs, t) ==
  GetAllMatchesFromCache(prefix, CacheDir \o CachePath(self_link).path,
                         None, fl, order, fs, t)

\* ----------------------------------------------------------- write path
\* The collection of a self link, as the two pieces of 'api.collection'.
Collection(ref) == <<ref[2], ref[Len(ref) - 1]>>

\* RemoteCompletion._TIMEOUTS.get(collection, 300)
DefaultTimeout == 300
Timeouts(collection) ==
  CASE collection = <<"sql", "instances">> -> 600
    [] collection = <<"compute", "instances">> -> 600
    [] collection = <<"compute", "regions">> -> 3600 * 10
    [] collection = <<"compute", "zones">> -> 3600 * 10
    [] OTHER -> DefaultTimeout

\* paths[path]: the names of the self links that share path, in order.
RECURSIVE GroupNames(_, _)
GroupNames(self_links, path) ==
  IF self_links = <<>> THEN <<>>
  ELSE (IF CachePath(Head(self_links)).path = path
          THEN <<CachePath(Head(self_links)).name>> ELSE <<>>)
       \o GroupNames(Tail(self_links), path)

\* The keys of the paths dict.
GroupPaths(self_links) ==
  { CachePath(self_links[i]).path : i \in DOMAIN self_links }

\* One round of the loop over paths.  The directory test decides whether
\* the file is written; utime raises when the file does not exist.
StoreGroup(fs, path, names, t, secs) ==
  LET abs_path == CacheDir \o path
      dirname == Front(abs_path)
      fs1 == IF ~IsDir(fs, dirname)
               THEN WriteFile([fs EXCEPT !.dirs = @ \cup Ancestors(dirname)],
                              abs_path, Join(names), t)
               ELSE fs
  IN  IF IsFile(fs1, abs_path)
        THEN [fs |-> SetMTime(fs1, abs_path, t + secs), raised |-> FALSE]
        ELSE [fs |-> fs1, raised |-> TRUE]

\* The loop over paths in dict order; an exception ends it.
RECURSIVE StoreGroups(_, _, _, _, _)
StoreGroups(fs, order, self_links, t, secs) ==
  IF order = <<>> THEN fs
  ELSE LET r == StoreGroup(fs, Head(order), GroupNames(self_links, Head(order)),
                           t, secs)
       IN  IF r.raised THEN r.fs
           ELSE StoreGroups(r.fs, Tail(order), self_links, t, secs)

\* StoreInCache: the file system it leaves.
StoreInCache(self_links, order, fs, t) ==
  IF self_links = <<>> THEN fs
  ELSE StoreGroups(fs, order, self_links, t, Timeouts(Collection(self_links[1])))

\* list.remove(x): the list without the first x.
RemoveFirst(s, x) ==
  LET k == IndexOf(s, x)
  IN  SubSeq(s, 1, k - 1) \o SubSeq(s, k + 1, Len(s))

\* AddToCache with the rewritten file given a new expiry instead of the
\* one it had.
AddToCache_Refresh(self_link, delete, fs, t) ==
  LET path == CachePath(self_link).path
      name == CachePath(self_link).name
      abs_path == CacheDir \o path
  IN  IF ~IsFile(fs, abs_path)
        THEN IF delete THEN fs
             ELSE StoreInCache(<<self_link>>, <<path>>, fs, t)
      ELSE LET options == SplitLines(fs.files[abs_path].data)
               rewrite(names) ==
                 SetMTime(WriteFile(fs, abs_path, Join(names), t), abs_path,
                          t + Timeouts(Collection(self_link)))
           IN  IF delete
                 THEN IF IndexOf(options, name) = 0 THEN fs
                      ELSE IF RemoveFirst(options, name) = <<>>
                        THEN RemoveFile(fs, abs_path)
                      ELSE rewrite(RemoveFirst(options, name))
               ELSE rewrite(Append(options, name))

\* AddToCache with the emptied file rewritten instead of removed.
AddToCache_KeepEmpty(self_link, delete, fs, t) ==
  LET path == CachePath(self_link).path
      name == CachePath(self_link).name
      abs_path == CacheDir \o path
  IN  IF ~IsFile(fs, abs_path)
        THEN IF delete THEN fs
             ELSE StoreInCache(<<self_link>>, <<path>>, fs, t)
      ELSE LET mtime == GetMTime(fs, abs_path)
               options == SplitLines(fs.files[abs_path].data)
               rewrite(names) ==
                 SetMTime(WriteFile(fs, abs_path, Join(names), t), abs_path, mtime)
           IN  IF delete
                 THEN IF IndexOf(options, name) = 0 THEN fs
                      ELSE rewrite(RemoveFirst(options, name))
               ELSE rewrite(Append(options, name))

\* AddToCache: the file system it leaves.  getmtime raises OSError when
\* the file is missing, list.remove raises ValueError when the name is.
AddToCache(self_link, delete, fs, t) ==
  LET path == CachePath(self_link).path
      name == CachePath(self_link).name
      abs_path == CacheDir \o path
  IN  IF ~IsFile(fs, abs_path)
        THEN IF delete THEN fs
             ELSE StoreInCache(<<self_link>>, <<path>>, fs, t)
      ELSE LET mtime == GetMTime(fs, abs_path)
               options == SplitLines(fs.files[abs_path].data)
               rewrite(names) ==
                 SetMTime(WriteFile(fs, abs_path, Join(names), t), abs_path, mtime)
           IN  IF delete
                 THEN IF IndexOf(options, name) = 0 THEN fs
                      ELSE IF RemoveFirst(options, name) = <<>>
                        THEN RemoveFile(fs, abs_path)
                      ELSE rewrite(RemoveFirst(options, name))
               ELSE rewrite(Append(options, name))

\* DeleteFromCache
DeleteFromCache(self_link, fs, t) == AddToCache(self_link, TRUE, fs, t)

\* ------------------------------------------------------------ completer
\* The resource link RemoteCompleter builds for compute.addresses: the
\* region segment is the --region value, '*' when none was given; the
\* name is '+'.
Template(region) ==
  Api \o <<"regions", IF region = "" THEN "*" ELSE region, "addresses", "+">>

Templates == { Template(r) : r \in Regions \cup {""} }

\* The self link lists StoreInCache is called with directly.
StoreLists == { <<l>> : l \in SelfLinks }

\* The self links AddToCache and DeleteFromCache are called with.
MutateLinks == { l \in SelfLinks : l[6] = "regions" }

\* The links GetFromCache is called with directly.
ReadLinks == Templates \cup { Api \o <<"global", "addresses", "+">> }

\* What the list command can report for a resource link: the addresses
\* of its region, or of every region and the global ones when the region
\* is '*'.
Listable(resource_link) ==
  { l \in SelfLinks :
      \/ resource_link[7] = "*"
      \/ (l[6] = "regions" /\ l[7] = resource_link[7]) }

SeqOf(S) == SelectSeq(SelfLinkSeq, LAMBDA l : l \in S)

\* The item lists the list command returns: listable items, in the
\* order of SelfLinkSeq.
ListerResults(resource_link) ==
  { SeqOf(S) : S \in SUBSET Listable(resource_link) }

\* The name filter RemoteCompleter applies to the listed items.
RECURSIVE ItemNames(_, _)
ItemNames(self_links, prefix) ==
  IF self_links = <<>> THEN <<>>
  ELSE (IF prefix = "" \/ StartsWith(Last(Head(self_links)), prefix)
          THEN << <<Last(Head(self_links))>> >> ELSE <<>>)
       \o ItemNames(Tail(self_links), prefix)

\* A truth test that takes anything, None too, for true.
IsTrue_Always(options) == TRUE

\* Python's truth value of a list or None.
IsTrue(options) == ~options.absent /\ options.val # <<>>

\* IsMiss as the truth test 'if not options', which also takes an empty
\* list for a miss.
IsMiss_Falsy(first) == ~IsTrue(first.options)

\* An exception that leaves RemoteCompleter.
OnException_Propagate == Raised

\* What RemoteCompleter does with an exception raised anywhere in its try
\* block: the error is logged and [] returned.
OnException == List(<<>>)

\* Whether RemoteCompleter runs the list command on what its first
\* GetFromCache returned.
IsMiss(first) == first.options.absent

\* ------------------------------------------------------ progress tracker
\* A tracker made with autotick=False.
Autotick_Off == FALSE

\* The defaults of CompletionProgressTracker.__init__, which is how
\* RemoteCompleter makes its tracker; times are tenths of a second.
Timeout == 30
Autotick == TRUE

\* What Ticker sleeps, and takes off the timeout, before its loop and in
\* each pass of it.
FirstSleep == 2
LoopSleep == 1

\* self.timeout < 0, on the doubles the code computes.  .2 and .1 are
\* not exact: 3.0 - .2 and then 27 times - .1 leaves 0.1 and a little
\* less than that, so the 28th - .1 leaves -1.5e-15, and the test holds
\* once the tenths are down to 0.
Negative(t) == t <= 0

\* CompletionProgressTracker.SPIN_MARKS
SPIN_MARKS == <<"|", "/", "-", "\\">>

\* Tick that never reports _done.
Tick_NeverDone(t, d) ==
  [ticks |-> IF ~d THEN t + 1 ELSE t,
   out |-> IF ~d THEN <<SPIN_MARKS[((t + 1) % Len(SPIN_MARKS)) + 1]>> ELSE <<>>,
   ret |-> FALSE]

\* Tick under the lock: unless _done is set it counts a tick and writes
\* the spin mark of the new count; it returns _done.
Tick(t, d) ==
  [ticks |-> IF ~d THEN t + 1 ELSE t,
   out |-> IF ~d THEN <<SPIN_MARKS[((t + 1) % Len(SPIN_MARKS)) + 1]>> ELSE <<>>,
   ret |-> d]

\* ---------------------------------------------------------------- Init
NoOp == [name |-> "init", link |-> <<>>, prefix |-> "", delete |-> FALSE,
         items |-> <<>>, listed |-> FALSE, empty |-> FALSE, exc |-> ""]

FS == [dirs |-> dirs, files |-> files]

Init ==
  /\ dirs = {}
  /\ files = [p \in {} |-> None]
  /\ now = 0
  /\ flags = <<>>
  /\ CACHE_TRIES = 0
  /\ CACHE_HITS = 0
  /\ pc = "idle"
  /\ ccflags = <<>>
  /\ op = NoOp
  /\ ret = None
  /\ timeout = Timeout
  /\ ticks = 0
  /\ done = FALSE
  /\ lock = "free"
  /\ ofile = <<>>
  /\ mpc = "constructed"
  /\ tpc = "unstarted"

\* -------------------------------------------------------------- actions
\* time passes: up to the second before, or the second of, a record's
\* expiry.
Advance ==
  /\ pc = "idle"
  /\ \E p \in DOMAIN files : \E t \in {files[p].mtime - 1, files[p].mtime} :
       /\ t > now
       /\ t <= MaxNow
       /\ now' = t
  /\ op' = [NoOp EXCEPT !.name = "Advance"]
  /\ ret' = None
  /\ UNCHANGED wvars
  /\ UNCHANGED <<dirs, files, flags, CACHE_TRIES, CACHE_HITS, pc, ccflags>>

\* ccache.GetFromCache(self_link, prefix) on the long-lived object
GetFromCacheCall ==
  /\ pc = "idle"
  /\ CACHE_TRIES < MaxTries
  /\ \E self_link \in ReadLinks, prefix \in Prefixes :
       \E order \in Orders(Listed(AbsPath(self_link), FS)) :
         LET r == GetFromCache(self_link, prefix, flags, order, FS, now)
         IN  /\ CACHE_TRIES' = CACHE_TRIES + 1
             /\ CACHE_HITS' = CACHE_HITS + r.hits
             /\ flags' = r.flags
             /\ ret' = IF r.raised THEN Raised ELSE r.options
             /\ op' = [NoOp EXCEPT !.name = "GetFromCache", !.link = self_link,
                                   !.prefix = prefix]
  /\ UNCHANGED wvars
  /\ UNCHANGED <<dirs, files, now, pc, ccflags>>

\* ccache.StoreInCache(self_links)
StoreInCacheCall ==
  /\ pc = "idle"
  /\ \E self_links \in StoreLists :
       \E order \in Orders(GroupPaths(self_links)) :
         LET new == StoreInCache(self_links, order, FS, now)
         IN  /\ dirs' = new.dirs
             /\ files' = new.files
             /\ op' = [NoOp EXCEPT !.name = "StoreInCache", !.items = self_links]
  /\ ret' = None
  /\ UNCHANGED wvars
  /\ UNCHANGED <<now, flags, CACHE_TRIES, CACHE_HITS, pc, ccflags>>

\* ccache.AddToCache(self_link, delete) and ccache.DeleteFromCache(self_link)
AddToCacheCall ==
  /\ pc = "idle"
  /\ \E self_link \in MutateLinks, delete \in BOOLEAN :
       LET new == AddToCache(self_link, delete, FS, now)
       IN  /\ (~delete /\ IsFile(FS, AbsPath(self_link)))
                => Len(SplitLines(files[AbsPath(self_link)].data)) < MaxNames
           /\ dirs' = new.dirs
           /\ files' = new.files
           /\ op' = [NoOp EXCEPT !.name = "AddToCache", !.link = self_link,
                                 !.delete = delete]
  /\ ret' = None
  /\ UNCHANGED wvars
  /\ UNCHANGED <<now, flags, CACHE_TRIES, CACHE_HITS, pc, ccflags>>

\* RemoteCompleter(parsed_args) with COMP_LINE ending in prefix, up to
\* the list command: the link is built, a RemoteCompletion object made
\* and the cache read; what was found is returned, and on None the list
\* command is started under the progress tracker.
RemoteCompleterCall ==
  /\ pc = "idle"
  /\ \E region \in Regions \cup {""}, prefix \in Prefixes :
       /\ CACHE_TRIES + (IF region = "" THEN 2 ELSE 1) <= MaxTries
       /\ \E order \in Orders(Listed(AbsPath(Template(region)), FS)) :
            LET first == GetFromCache(Template(region), prefix, <<>>, order, FS, now)
            IN  /\ CACHE_TRIES' = CACHE_TRIES + 1
                /\ CACHE_HITS' = CACHE_HITS + first.hits
                /\ op' = [NoOp EXCEPT !.name = "RemoteCompleter",
                                      !.link = Template(region), !.prefix = prefix,
                                      !.empty = (dirs = {} /\ DOMAIN files = {}),
                                      !.exc = IF first.raised THEN "read" ELSE ""]
                /\ ccflags' = IF ~first.raised /\ IsMiss(first) THEN first.flags
                              ELSE <<>>
                /\ pc' = IF ~first.raised /\ IsMiss(first) THEN "listing"
                         ELSE "idle"
                /\ ret' = IF first.raised THEN OnException ELSE first.options
  /\ UNCHANGED wvars
  /\ UNCHANGED <<dirs, files, now, flags>>

\* RemoteCompleter left by an exception before the list command: the
\* project property is not set or the link cannot be built ("template"),
\* or the first GetFromCache, which has counted its try, fails on the
\* file system ("read": listdir or getmtime raising OSError).
RemoteCompleterRaises ==
  /\ pc = "idle"
  /\ \E region \in Regions \cup {""}, prefix \in Prefixes, exc \in {"template", "read"} :
       /\ exc = "read" => CACHE_TRIES < MaxTries
       /\ CACHE_TRIES' = IF exc = "read" THEN CACHE_TRIES + 1 ELSE CACHE_TRIES
       /\ op' = [NoOp EXCEPT !.name = "RemoteCompleter",
                             !.link = IF exc = "read" THEN Template(region) ELSE <<>>,
                             !.prefix = prefix,
                             !.empty = (dirs = {} /\ DOMAIN files = {}),
                             !.exc = exc]
  /\ ret' = OnException
  /\ UNCHANGED wvars
  /\ UNCHANGED <<dirs, files, now, flags, CACHE_HITS, pc, ccflags>>

\* The list command returns items within the progress tracker's timeout;
\* RemoteCompleter filters their names and stores their self links, and
\* returns the names unless the link holds a '*'.
ListCommandReturns ==
  /\ pc = "listing"
  /\ \E items \in ListerResults(op.link) :
     \E order \in Orders(GroupPaths(items)) :
       LET new == StoreInCache(items, order, FS, now)
       IN  /\ dirs' = new.dirs
           /\ files' = new.files
           /\ ret' = List(ItemNames(items, op.prefix))
           /\ op' = [op EXCEPT !.items = items, !.listed = TRUE]
           /\ pc' = IF items # <<>> /\ Len(Split(op.link, "*")) > 1
                      THEN "reread" ELSE "idle"
  /\ UNCHANGED wvars
  /\ UNCHANGED <<now, flags, CACHE_TRIES, CACHE_HITS, ccflags>>

\* The list command raises under the progress tracker ("lister"), or the
\* self link of one of its items cannot be made ("resolve"): nothing has
\* been stored yet, and RemoteCompleter is left through its handler.
ListCommandRaises ==
  /\ pc = "listing"
  /\ \E exc \in {"lister", "resolve"} : op' = [op EXCEPT !.exc = exc]
  /\ ret' = OnException
  /\ pc' = "idle"
  /\ ccflags' = <<>>
  /\ UNCHANGED wvars
  /\ UNCHANGED <<dirs, files, now, flags, CACHE_TRIES, CACHE_HITS>>

\* The second GetFromCache of RemoteCompleter, made when the link holds
\* a '*' and items were stored: a non-empty result takes one hit back,
\* anything else becomes [].
RemoteCompleterReread ==
  /\ pc = "reread"
  /\ \E order \in Orders(Listed(AbsPath(op.link), FS)) :
       LET again == GetFromCache(op.link, op.prefix, ccflags, order, FS, now)
       IN  /\ CACHE_TRIES' = CACHE_TRIES + 1
           /\ CACHE_HITS' = IF again.raised THEN CACHE_HITS
                            ELSE IF IsTrue(again.options)
                              THEN CACHE_HITS + again.hits - 1
                            ELSE CACHE_HITS + again.hits
           /\ ret' = IF again.raised THEN OnException
                     ELSE IF IsTrue(again.options) THEN again.options
                     ELSE List(<<>>)
  /\ pc' = "idle"
  /\ ccflags' = <<>>
  /\ UNCHANGED wvars
  /\ UNCHANGED <<dirs, files, now, flags, op>>

Next ==
  \/ Advance
  \/ GetFromCacheCall
  \/ StoreInCacheCall
  \/ AddToCacheCall
  \/ RemoteCompleterCall
  \/ RemoteCompleterRaises
  \/ ListCommandReturns
  \/ ListCommandRaises
  \/ RemoteCompleterReread

Spec == Init /\ [][Next]_vars

\* ------------------------------------------ reads across several branches
\* The self links of a project with addresses in three regions and a
\* global one.
WideLinks ==
  { Api \o <<"regions", "r1", "addresses", "ab">>,
    Api \o <<"regions", "r2", "addresses", "b">>,
    Api \o <<"regions", "r3", "addresses", "a">>,
    Api \o <<"global", "addresses", "ab">> }

\* The links GetFromCache is called with: the addresses of any region,
\* and the addresses of any region of any project.
WideTemplates ==
  { Api \o <<"regions", "*", "addresses", "+">>,
    SubSeq(Api, 1, 4) \o <<"*", "regions", "*", "addresses", "+">> }

\* RemoteCompletion().GetFromCache(self_link, prefix): a new object, whose
\* flags are ''.
GetFromCacheWide ==
  /\ pc = "idle"
  /\ CACHE_TRIES < MaxTries
  /\ \E self_link \in WideTemplates, prefix \in Prefixes :
       \E order \in Orders(Listed(AbsPath(self_link), FS)) :
         LET r == GetFromCache(self_link, prefix, <<>>, order, FS, now)
         IN  /\ CACHE_TRIES' = CACHE_TRIES + 1
             /\ CACHE_HITS' = CACHE_HITS + r.hits
             /\ ret' = IF r.raised THEN Raised ELSE r.options
             /\ op' = [NoOp EXCEPT !.name = "GetFromCache", !.link = self_link,
                                   !.prefix = prefix]
  /\ UNCHANGED wvars
  /\ UNCHANGED <<dirs, files, now, flags, pc, ccflags>>

\* RemoteCompletion().StoreInCache([self_link])
StoreInCacheWide ==
  /\ pc = "idle"
  /\ \E self_link \in WideLinks :
       LET new == StoreInCache(<<self_link>>, <<CachePath(self_link).path>>, FS, now)
       IN  /\ dirs' = new.dirs
           /\ files' = new.files
           /\ op' = [NoOp EXCEPT !.name = "StoreInCache", !.items = <<self_link>>]
  /\ ret' = None
  /\ UNCHANGED wvars
  /\ UNCHANGED <<now, flags, CACHE_TRIES, CACHE_HITS, pc, ccflags>>

WideNext ==
  \/ Advance
  \/ GetFromCacheWide
  \/ StoreInCacheWide

WideSpec == Init /\ [][WideNext]_vars

\* ------------------------------------------------ progress tracker steps
\* __enter__: the Ticker thread is started when autotick is set, and the
\* guarded statement begins.
Enter ==
  /\ mpc = "constructed"
  /\ mpc' = "guarded"
  /\ tpc' = IF Autotick THEN "started" ELSE tpc
  /\ UNCHANGED <<timeout, ticks, done, lock, ofile>>
  /\ UNCHANGED cvars

\* Ticker: time.sleep(.2); self.timeout -= .2
TickerFirstSleep ==
  /\ tpc = "started"
  /\ timeout' = timeout - FirstSleep
  /\ tpc' = "test"
  /\ UNCHANGED <<ticks, done, lock, ofile, mpc>>
  /\ UNCHANGED cvars

\* Ticker: if self.timeout < 0
TickerTest ==
  /\ tpc = "test"
  /\ tpc' = IF Negative(timeout) THEN "timedout" ELSE "sleep"
  /\ UNCHANGED <<timeout, ticks, done, lock, ofile, mpc>>
  /\ UNCHANGED cvars

\* Ticker, timed out: '?\b' is written and flushed; the lock is not
\* taken.
TickerWarn ==
  /\ tpc = "timedout"
  /\ ofile' = Append(ofile, "?")
  /\ tpc' = "kill"
  /\ UNCHANGED <<timeout, ticks, done, lock, mpc>>
  /\ UNCHANGED cvars

\* Ticker, timed out: os.kill(0, 15) sends SIGTERM to the process group,
\* which ends the process and with it both threads.
TickerKill ==
  /\ tpc = "kill"
  /\ tpc' = "killed"
  /\ mpc' = "killed"
  /\ UNCHANGED <<timeout, ticks, done, lock, ofile>>
  /\ UNCHANGED cvars

\* Ticker: time.sleep(.1); self.timeout -= .1
TickerSleep ==
  /\ tpc = "sleep"
  /\ timeout' = timeout - LoopSleep
  /\ tpc' = "tick"
  /\ UNCHANGED <<ticks, done, lock, ofile, mpc>>
  /\ UNCHANGED cvars

\* Ticker: Tick() takes the lock
TickerAcquire ==
  /\ tpc = "tick"
  /\ lock = "free"
  /\ lock' = "Ticker"
  /\ tpc' = "locked"
  /\ UNCHANGED <<timeout, ticks, done, ofile, mpc>>
  /\ UNCHANGED cvars

\* Ticker: the body of Tick() and the release of the lock; the thread
\* returns when Tick() returned _done.
TickerTick ==
  /\ tpc = "locked"
  /\ ticks' = Tick(ticks, done).ticks
  /\ ofile' = ofile \o Tick(ticks, done).out
  /\ lock' = "free"
  /\ tpc' = IF Tick(ticks, done).ret THEN "returned" ELSE "test"
  /\ UNCHANGED <<timeout, done, mpc>>
  /\ UNCHANGED cvars

\* The guarded statement is left (it returned or raised) and __exit__
\* takes the lock.
ExitAcquire ==
  /\ mpc = "guarded"
  /\ lock = "free"
  /\ lock' = "main"
  /\ mpc' = "exiting"
  /\ UNCHANGED <<timeout, ticks, done, ofile, tpc>>
  /\ UNCHANGED cvars

\* __exit__ under the lock: ' \b' is written and _done set.
Exit ==
  /\ mpc = "exiting"
  /\ ofile' = Append(ofile, " ")
  /\ done' = TRUE
  /\ lock' = "free"
  /\ mpc' = "exited"
  /\ UNCHANGED <<timeout, ticks, tpc>>
  /\ UNCHANGED cvars

TickerNext ==
  \/ TickerFirstSleep
  \/ TickerTest
  \/ TickerWarn
  \/ TickerKill
  \/ TickerSleep
  \/ TickerAcquire
  \/ TickerTick

TrackerNext ==
  \/ Enter
  \/ TickerNext
  \/ ExitAcquire
  \/ Exit

\* The tracker around a guarded statement that may never be left: the
\* threads that can run do run (the sleeps end, a free lock is taken, a
\* held lock is released), and nothing makes the guarded statement end.
TrackerSpec ==
  /\ Init
  /\ [][TrackerNext]_vars
  /\ WF_vars(Enter)
  /\ WF_vars(TickerNext)
  /\ WF_vars(Exit)

\* =============================================================== claims
\* The names of the record at path p, and a name list as a set.
NamesAt(fs, p) == SplitLines(fs.files[p].data)
NameSet(names) == { names[i] : i \in DOMAIN names }
WildcardFree(link) == \A i \in DOMAIN link : link[i] # "*"

\* What GetFromCache(id, '') returns for a wildcard-free id on a fresh
\* RemoteCompletion object, from the file system fs at time t.
ReadOf(id, fs, t) == GetFromCache(id, "", <<>>, <<>>, fs, t).options

\* The names in a result, without the flags that follow them.
ResultNames(options) == { options.val[i][1] : i \in DOMAIN options.val }

\* C1: round trip.  Right after StoreInCache([id]) for a wildcard-free
\* id, whatever the cache held before, GetFromCache(id, '') returns a
\* list (not None) that holds id's name.
C1_RoundTrip ==
  (op.name = "StoreInCache" /\ Len(op.items) = 1) =>
    LET id == op.items[1]
        r == ReadOf(id, FS, now)
    IN  /\ ~r.absent
        /\ Last(id) \in ResultNames(r)

\* C2: freshness boundary.  A file StoreInCache creates at time t0 gets
\* the expiry t0 + T, T the timeout of its collection, and, left as it
\* is, a wildcard-free GetFromCache returns its names at the times
\* before t0 + T and None at the times from t0 + T on (read at t0, at
\* t0 + 1 and in the seconds around t0 + T, where the answer turns);
\* and every wildcard-free GetFromCache that is made returns None
\* exactly when the file is missing or its expiry is not greater than
\* the present time.
C2_Created ==
  \A id \in SelfLinks :
    LET p == AbsPath(id)
        T == Timeouts(Collection(id))
        fs1 == [dirs |-> dirs', files |-> files']
    IN  (p \notin DOMAIN files /\ p \in DOMAIN files') =>
          /\ files'[p].mtime = now + T
          /\ \A t \in {now, now + 1} \cup ((now + T - 2)..(now + T + 2)) :
               LET r == ReadOf(id, fs1, t)
               IN  IF t < now + T
                     THEN /\ ~r.absent
                          /\ ResultNames(r) = NameSet(NamesAt(fs1, p))
                     ELSE r.absent

C2_Read ==
  (op'.name = "GetFromCache" /\ CACHE_TRIES' = CACHE_TRIES + 1
     /\ WildcardFree(op'.link)) =>
    LET p == AbsPath(op'.link)
    IN  ret'.absent <=> ~(p \in DOMAIN files /\ files[p].mtime > now)

C2_FreshnessBoundary == [][C2_Created /\ C2_Read]_vars

\* C2 witness: a GetFromCache made in the very second a record expires
\* has returned None.
C2_Witness ==
  /\ op.name = "GetFromCache"
  /\ WildcardFree(op.link)
  /\ AbsPath(op.link) \in DOMAIN files
  /\ files[AbsPath(op.link)].mtime = now
  /\ ret = None

\* C3: end-to-end miss.  When RemoteCompleter has run on an empty cache
\* with the prefix '' and the list command returned a non-empty list of
\* items, the cache holds exactly the names of the items, grouped by
\* cache path, and the names returned are exactly the items' names.
C3_EndToEndMiss ==
  (/\ pc = "idle"
   /\ op.name = "RemoteCompleter"
   /\ op.listed
   /\ op.empty
   /\ op.items # <<>>
   /\ op.prefix = "") =>
    /\ DOMAIN files = { CacheDir \o q : q \in GroupPaths(op.items) }
    /\ \A q \in GroupPaths(op.items) :
         NamesAt(FS, CacheDir \o q) = GroupNames(op.items, q)
    /\ ~ret.absent
    /\ ResultNames(ret) = { Last(op.items[i]) : i \in DOMAIN op.items }

\* C4: RemoteCompleter runs the list command only when its first
\* GetFromCache returned None.  When that returned a list, empty or not,
\* RemoteCompleter returns the list, runs no list command and leaves the
\* cache files as they are; and items are only ever listed by a
\* completer that is waiting for its list command.
C4_FirstReads ==
  { GetFromCache(op'.link, op'.prefix, <<>>, o, FS, now).options :
      o \in Orders(Listed(AbsPath(op'.link), FS)) }

C4_ListerOnlyOnMiss ==
  [][/\ (pc = "idle" /\ op'.name = "RemoteCompleter" /\ op'.exc = ""
           /\ CACHE_TRIES' = CACHE_TRIES + 1) =>
          IF pc' = "listing"
            THEN \A r \in C4_FirstReads : r.absent
            ELSE /\ pc' = "idle"
                 /\ ~op'.listed
                 /\ ~ret'.absent
                 /\ ret' \in C4_FirstReads
                 /\ dirs' = dirs
                 /\ files' = files
     /\ (op'.listed /\ (~op.listed \/ op'.items # op.items)) => pc = "listing"
    ]_vars

\* C4 witness: RemoteCompleter has returned the empty list its
\* GetFromCache found, with no list command run.
C4_Witness ==
  /\ pc = "idle"
  /\ op.name = "RemoteCompleter"
  /\ ~op.listed
  /\ ret = List(<<>>)
  /\ DOMAIN files # {}

\* C5: timeout liveness.  With the Ticker running, a guarded statement
\* that is never left does not block for ever: the Ticker brings the
\* timeout below zero and kills the process.
C5_TimeoutLiveness ==
  ([](mpc # "exiting" /\ mpc # "exited")) =>
    <>(tpc = "killed" /\ Negative(timeout))

\* C5 witness: the process was killed while the guarded statement was
\* still running.
C5_Witness == tpc = "killed" /\ mpc = "killed" /\ ~done /\ ticks > 0

\* C6: normal completion.  Once _done is set while the timeout is not
\* yet below zero, the process is never killed, whatever the
\* interleaving, and the Ticker thread returns.
C6_NormalCompletion ==
  /\ []((done /\ ~Negative(timeout)) => [](tpc # "killed"))
  /\ ((done /\ ~Negative(timeout)) ~> (tpc = "returned"))

\* C6 witness: the Ticker has returned after a release that came with
\* time left.
C6_Witness == done /\ ~Negative(timeout) /\ tpc = "returned" /\ ticks > 0

\* C7: store-once.  StoreInCache of a self link whose file exists leaves
\* the file's names and its expiry as they were.
C7_StoreOnce ==
  [][op'.name = "StoreInCache" =>
       \A p \in DOMAIN files :
         p = AbsPath(op'.items[1]) =>
           /\ p \in DOMAIN files'
           /\ NamesAt([dirs |-> dirs', files |-> files'], p) = NamesAt(FS, p)
           /\ files'[p].mtime = files[p].mtime
    ]_vars

\* C8: AddToCache(id) on a file that exists leaves its expiry exactly as
\* it was, expired or not, and the names afterwards hold id's name and
\* every name that was there before.
C8_AddKeepsExpiry ==
  [][(op'.name = "AddToCache" /\ ~op'.delete
        /\ AbsPath(op'.link) \in DOMAIN files) =>
       LET p == AbsPath(op'.link)
       IN  /\ p \in DOMAIN files'
           /\ files'[p].mtime = files[p].mtime
           /\ NameSet(NamesAt(FS, p)) \cup { Last(op'.link) }
                \subseteq NameSet(NamesAt([dirs |-> dirs', files |-> files'], p))
    ]_vars

\* C8 witness: a name was added to a record that had already expired.
C8_Witness ==
  /\ op.name = "AddToCache"
  /\ ~op.delete
  /\ AbsPath(op.link) \in DOMAIN files
  /\ Len(NamesAt(FS, AbsPath(op.link))) >= 2
  /\ files[AbsPath(op.link)].mtime <= now

\* C9: DeleteFromCache(id) on a record that holds id's name.  When that
\* was its only name the file is removed and a GetFromCache for the key
\* returns None; otherwise the file stays, with one name fewer, every
\* other name still there and the expiry it had.
C9_Remove ==
  [][(op'.name = "AddToCache" /\ op'.delete
        /\ AbsPath(op'.link) \in DOMAIN files
        /\ Last(op'.link) \in NameSet(NamesAt(FS, AbsPath(op'.link)))) =>
       LET p == AbsPath(op'.link)
           fs1 == [dirs |-> dirs', files |-> files']
       IN  IF Len(NamesAt(FS, p)) = 1
             THEN /\ p \notin DOMAIN files'
                  /\ ReadOf(op'.link, fs1, now).absent
             ELSE /\ p \in DOMAIN files'
                  /\ files'[p].mtime = files[p].mtime
                  /\ Len(NamesAt(fs1, p)) = Len(NamesAt(FS, p)) - 1
                  /\ NameSet(NamesAt(FS, p)) \ { Last(op'.link) }
                       \subseteq NameSet(NamesAt(fs1, p))
    ]_vars

\* C9 witness: a DeleteFromCache has removed the file of a record (its
\* directory is still there, the file is not).
C9_Witness ==
  /\ op.name = "AddToCache"
  /\ op.delete
  /\ IsDir(FS, Front(AbsPath(op.link)))
  /\ AbsPath(op.link) \notin DOMAIN files
  /\ ReadOf(op.link, FS, now).absent

\* C10: AddToCache on a key whose file is missing.  Without delete it
\* creates the file with id's name and the expiry now + T, so that a
\* GetFromCache made at once returns the name; with delete it changes
\* nothing.
C10_AbsentFile ==
  [][(op'.name = "AddToCache" /\ AbsPath(op'.link) \notin DOMAIN files) =>
       LET p == AbsPath(op'.link)
           fs1 == [dirs |-> dirs', files |-> files']
       IN  IF op'.delete
             THEN dirs' = dirs /\ files' = files
             ELSE /\ p \in DOMAIN files'
                  /\ NamesAt(fs1, p) = << Last(op'.link) >>
                  /\ files'[p].mtime = now + Timeouts(Collection(op'.link))
                  /\ Last(op'.link) \in ResultNames(ReadOf(op'.link, fs1, now))
    ]_vars

\* C16: once _done is set the Ticker has no further effect: under every
\* interleaving, from a state in which _done is set no step writes to
\* ofile, counts a tick or kills the process.
C16_NothingAfterDone ==
  [][done =>
       /\ ofile' = ofile
       /\ ticks' = ticks
       /\ (tpc' = "killed" => tpc = "killed")
    ]_vars

\* C17: every write to ofile and every change of _ticks and of _done is
\* made by a thread that holds _lock at that moment, on the Ticker's
\* paths, the timeout path among them, and in __exit__.
C17_UnderLock ==
  [][/\ ticks' # ticks => lock = "Ticker"
     /\ done' # done => lock = "main"
     /\ ofile' # ofile =>
          lock = (IF Last(ofile') = " " THEN "main" ELSE "Ticker")
    ]_vars

\* Whether path is an instance of pattern: the same length, and the same
\* segment wherever the pattern holds no '*'.
Matches(path, pattern) ==
  /\ Len(path) = Len(pattern)
  /\ \A i \in DOMAIN pattern : pattern[i] = "*" \/ pattern[i] = path[i]

\* The sibling 'global' path of a pattern whose first '*' stands for a
\* region: 'regions/*' gives way to 'global'; <<>> for any other pattern.
GlobalOf(pattern) ==
  IF \E i \in DOMAIN pattern : pattern[i] = "*"
    THEN LET i == CHOOSE k \in DOMAIN pattern :
                    pattern[k] = "*" /\ \A j \in 1..(k - 1) : pattern[j] # "*"
         IN  IF i > 1 /\ pattern[i - 1] = "regions"
               THEN SubSeq(pattern, 1, i - 2) \o <<"global">>
                      \o SubSeq(pattern, i + 1, Len(pattern))
               ELSE <<>>
    ELSE <<>>

\* The fresh record files along the path of a link: the files that are
\* instances of its cache path, and the sibling global file of a
\* regional one, with an expiry greater than t.
FreshAlong(link, fs, t) ==
  { f \in DOMAIN fs.files :
      /\ \/ Matches(f, AbsPath(link))
         \/ f = GlobalOf(AbsPath(link))
      /\ fs.files[f].mtime > t }

C18_Repopulation ==
  [][(pc = "listing" /\ pc' # "listing" /\ op'.items # <<>>) =>
       \A q \in GroupPaths(op'.items) :
         LET p == CacheDir \o q
             fs1 == [dirs |-> dirs', files |-> files']
             id == CHOOSE l \in NameSet(op'.items) : CachePath(l).path = q
         IN  (p \in DOMAIN files /\ files[p].mtime <= now) =>
               /\ p \in DOMAIN files'
               /\ files'[p].mtime > now
               /\ NameSet(NamesAt(fs1, p)) = NameSet(GroupNames(op'.items, q))
               /\ ResultNames(ReadOf(id, fs1, now))
                    = NameSet(GroupNames(op'.items, q))
    ]_vars

\* C19: hit compensation.  The second GetFromCache of RemoteCompleter,
\* made for a link with a '*' after a non-empty list was stored, counts
\* its hits and one hit is taken back whenever it found a fresh record,
\* whatever the prefix: CACHE_HITS rises by the number of fresh files
\* less one.
C19_HitCompensation ==
  [][(pc = "reread" /\ pc' = "idle" /\ FreshAlong(op.link, FS, now) # {}) =>
       CACHE_HITS' = CACHE_HITS + Cardinality(FreshAlong(op.link, FS, now)) - 1
    ]_vars

Wildcards(link) == Cardinality({ i \in DOMAIN link : link[i] = "*" })

\* The literal head of a link's cache path: what comes before its first
\* '*'.
HeadOf(link) == Split(AbsPath(link), "*")[1]

\* The names in the files of F that start with prefix.
NamesIn(F, prefix, fs) ==
  { n \in UNION { NameSet(NamesAt(fs, f)) : f \in F } :
      prefix = "" \/ StartsWith(n, prefix) }

\* C11: wildcard union.  GetFromCache of a link with one '*' whose literal
\* head is a directory returns exactly the names, starting with prefix,
\* of the branches whose file exists and is fresh (the sibling 'global'
\* branch of a 'regions' level among them): no name of a stale or
\* missing branch, and every matching name of a fresh one.
C11_WildcardUnion ==
  (/\ op.name = "GetFromCache"
   /\ Wildcards(op.link) = 1
   /\ IsDir(FS, HeadOf(op.link))) =>
    /\ ret # Raised
    /\ ResultNames(ret) = NamesIn(FreshAlong(op.link, FS, now), op.prefix, FS)

\* C11 witness: a read with no prefix that found the branches of r2 and r3
\* fresh and that of r1 stale, and returned the names of r2 and r3 only.
C11_Witness ==
  /\ op.name = "GetFromCache"
  /\ Wildcards(op.link) = 1
  /\ op.prefix = ""
  /\ LET f(r) == CacheDir \o Api \o <<"regions", r, "addresses", "_names_">>
     IN  /\ \A r \in {"r1", "r2", "r3"} : f(r) \in DOMAIN files
         /\ files[f("r1")].mtime <= now
         /\ files[f("r2")].mtime > now
         /\ files[f("r3")].mtime > now
  /\ ResultNames(ret) = {"a", "b"}

\* C20: recursive wildcard resolution.  GetFromCache of a link with two
\* or more '*' returns the names, starting with prefix, of every fresh
\* leaf file that the link matches.
C20_RecursiveWildcards ==
  (op.name = "GetFromCache" /\ Wildcards(op.link) >= 2) =>
    LET leaves == { f \in DOMAIN files :
                      Matches(f, AbsPath(op.link)) /\ files[f].mtime > now }
    IN  leaves # {} =>
          /\ ~ret.absent
          /\ ResultNames(ret) = NamesIn(leaves, op.prefix, FS)

\* C12: absent is distinct from empty.  GetFromCache returns None exactly
\* when no file along the link (a file the link matches, or the sibling
\* 'global' file of a 'regions' level) is fresh, and a list, which is
\* empty when no name starts with prefix, exactly when one is.
C12_AbsentIffNoFresh ==
  op.name = "GetFromCache" =>
    /\ ret # Raised
    /\ ret.absent <=> FreshAlong(op.link, FS, now) = {}

\* C14: a GetFromCache call adds exactly 1 to CACHE_TRIES, however many
\* branches it visits, and adds to CACHE_HITS the number of fresh files
\* it parsed: every fresh file along the link when it returns a list,
\* none when it returns None.
C14_Counters ==
  [][op'.name = "GetFromCache" =>
       /\ CACHE_TRIES' = CACHE_TRIES + 1
       /\ CACHE_HITS' = CACHE_HITS
             + (IF ret'.absent THEN 0
                ELSE Cardinality(FreshAlong(op'.link, FS, now)))]_vars

\* C14 witness: the first read of the process went through three fresh
\* files (two regions and the global one) and counted one try, three hits.
C14_Witness ==
  /\ op.name = "GetFromCache"
  /\ ~ret.absent
  /\ Cardinality(FreshAlong(op.link, FS, now)) = 3
  /\ CACHE_TRIES = 1
  /\ CACHE_HITS = 3

\* The annotation of the names read from file f on a read of link: the
\* flag of the '*' level and the entry f has there, or ' --global' when f
\* is the sibling 'global' file; nothing when link holds no '*'.
AnnotationOf(f, link) ==
  LET pattern == AbsPath(link)
  IN  IF WildcardFree(link) THEN <<>>
      ELSE IF f = GlobalOf(pattern) THEN <<" --global">>
      ELSE LET k == IndexOf(pattern, "*")
           IN  <<ResourceFlags(<<"compute", pattern[k - 1]>>), f[k]>>

\* C21: flag annotation.  Every candidate GetFromCache returns is a name
\* of a fresh file along the link followed by the annotation of that
\* file's branch; for a link without '*' that is the bare name, whatever
\* reads the same RemoteCompletion object has answered before.
C21_FlagAnnotation ==
  (op.name = "GetFromCache" /\ ~ret.absent) =>
    \A i \in DOMAIN ret.val :
      \E f \in FreshAlong(op.link, FS, now) :
        /\ ret.val[i][1] \in NameSet(NamesAt(FS, f))
        /\ Tail(ret.val[i]) = AnnotationOf(f, op.link)

\* Whether a name list holds no name twice.
NoDuplicates(names) ==
  \A i, j \in DOMAIN names : names[i] = names[j] => i = j

\* C23: name-set invariant.  No file ever holds a name twice; so
\* AddToCache of a name the file already holds leaves the file's names
\* as they are, and one DeleteFromCache leaves a file, if any, without
\* the name.
C23_NameSet ==
  [][/\ \A p \in DOMAIN files' : NoDuplicates(NamesAt([files |-> files'], p))
     /\ op'.name = "AddToCache" =>
          LET p == AbsPath(op'.link)
              name == Last(op'.link)
          IN  /\ (~op'.delete /\ p \in DOMAIN files
                    /\ name \in NameSet(NamesAt(FS, p))) =>
                   (p \in DOMAIN files' /\ files'[p].data = files[p].data)
              /\ (op'.delete /\ p \in DOMAIN files') =>
                   name \notin NameSet(NamesAt([files |-> files'], p))]_vars

\* C22: cache effectiveness.  When RemoteCompleter has missed, run the
\* list command and returned candidates, the same completion (same
\* resource link, same prefix) asked again before any time has passed is
\* answered by its first GetFromCache: the list command is not run again.
C22_SecondFromCache ==
  [][(/\ pc = "idle"
      /\ op.name = "RemoteCompleter"
      /\ op.listed
      /\ op.exc = ""
      /\ IsTrue(ret)
      /\ op'.name = "RemoteCompleter"
      /\ op'.exc = ""
      /\ op'.link = op.link
      /\ op'.prefix = op.prefix) =>
       /\ pc' = "idle"
       /\ ~ret'.absent]_vars

====
